---- MODULE Spec2Model ----
(***************************************************************************)
(* Model of the Claude OAuth API service (src/main.py, the headless       *)
(* service, and src/main_visual.py, the visual variant): the API-key gate, *)
(* the shared browser context with its open pages, and the /login,        *)
(* /login/manual, /oauth/authorize and /status handlers.  Every `await`    *)
(* on the browser is a point where another request's handler may run, so   *)
(* a handler is a sequence of steps; the browser and the remote site are   *)
(* the environment, whose answers (where a navigation lands, whether an    *)
(* element shows up, whether a call raises) are chosen with \E.            *)
(* Strings the code inspects (URLs, codes) are sequences of characters.    *)
(***************************************************************************)
EXTENDS Integers, Sequences, FiniteSets, TLC

\* ---------------------------------------------------------------- bounds
\* Request slots that may be in flight at the same time.
NumCalls == 2
\* Pages the browser context may create during one run; new_page() raises
\* once they are used up.
MaxPages == 2

Calls == 1..NumCalls
PageIds == 1..MaxPages

\* ------------------------------------------------------------- strings
Null == "null"

\* Python's None where the value is otherwise a text: a sequence no text
\* equals.
None == <<"None">>

\* Python `pat in s` on strings: pat occurs in s at position i.
OccursAt(s, pat, i) ==
    /\ i >= 1
    /\ i + Len(pat) - 1 <= Len(s)
    /\ \A k \in 1..Len(pat) : s[i + k - 1] = pat[k]

Contains(s, pat) == \E i \in 1..(Len(s) + 1) : OccursAt(s, pat, i)

\* Position of the first occurrence of pat in s at or after from; 0 if none.
Find(s, pat, from) ==
    LET hits == {i \in from..(Len(s) + 1) : OccursAt(s, pat, i)}
    IN  IF hits = {} THEN 0 ELSE CHOOSE i \in hits : \A j \in hits : i <= j

\* Python s.split(pat)[0]: the text before the first occurrence of pat.
SplitHead(s, pat) ==
    LET i == Find(s, pat, 1)
    IN  IF i = 0 THEN s ELSE SubSeq(s, 1, i - 1)

\* Python s.split(pat)[1], for s that contains pat: the text between the
\* first occurrence of pat and the next one (or the end of s).
SplitSecond(s, pat) ==
    LET i    == Find(s, pat, 1)
        rest == SubSeq(s, i + Len(pat), Len(s))
    IN  SplitHead(rest, pat)

\* ---------------------------------------------------------------- URLs
LoginURL == <<"h","t","t","p","s",":","/","/","c","l","a","u","d","e",".","a","i","/","l","o","g","i","n">>
BlankURL == <<"a","b","o","u","t",":","b","l","a","n","k">>
ChatURL == <<"h","t","t","p","s",":","/","/","c","l","a","u","d","e",".","a","i","/","c","h","a","t">>
NewURL == <<"h","t","t","p","s",":","/","/","c","l","a","u","d","e",".","a","i","/","n","e","w">>
ChallengeURL == <<"h","t","t","p","s",":","/","/","c","l","a","u","d","e",".","a","i","/","c","h","a","l","l","e","n","g","e">>
ConsentURL == <<"h","t","t","p","s",":","/","/","c","l","a","u","d","e",".","a","i","/","o","a","u","t","h">>
CbPlain == <<"h","t","t","p","s",":","/","/","c","b","/","?","c","o","d","e","=","a","b","c">>
CbErr == <<"h","t","t","p","s",":","/","/","c","b","/","?","e","r","r","o","r","_","c","o","d","e","=","5","&","c","o","d","e","=","a","b","c">>
CbEmpty == <<"h","t","t","p","s",":","/","/","c","b","/","?","c","o","d","e","=">>
CbLogin == <<"h","t","t","p","s",":","/","/","c","b","/","l","o","g","i","n","?","c","o","d","e","=","a","%","2","F","b","&","s","=","1">>

\* The substrings the handlers look for in page.url.
P_login == <<"l","o","g","i","n">>
P_chat == <<"c","l","a","u","d","e",".","a","i","/","c","h","a","t">>
P_new == <<"c","l","a","u","d","e",".","a","i","/","n","e","w">>
P_challenge == <<"c","h","a","l","l","e","n","g","e">>
P_code == <<"c","o","d","e","=">>
P_amp == <<"&">>

\* "claude.ai/chat" in url or "claude.ai/new" in url
LoggedInURL(url) == Contains(url, P_chat) \/ Contains(url, P_new)

\* Mutant of LoginRedirect: only the login page itself.
LoginRedirect_Exact(url) ==
    url = <<"h","t","t","p","s",":","/","/","c","l","a","u","d","e",".","a","i","/","l","o","g","i","n">>

\* "login" in page.url
LoginRedirect(url) == Contains(url, P_login)

\* "code=" in current_url
HasCode(url) == Contains(url, P_code)

\* current_url.split("code=")[1].split("&")[0]
ExtractCode(url) == SplitHead(SplitSecond(url, P_code), P_amp)

\* ------------------------------------------------------------ requests
\* API_KEY = os.getenv("API_KEY", ...): the configured key.
API_KEY == "your-secret-api-key-here"

\* What the X-API-Key header of a request may carry; NoHeader is the
\* missing header (APIKeyHeader(auto_error=False) then yields None).
NoHeader == "<none>"
Keys == {NoHeader, "", "wrong-key", API_KEY}

\* Mutant of VerifyApiKey: the comparison with API_KEY is forgotten.
VerifyApiKey_NoCompare(key) == ~(key = NoHeader \/ key = "")

\* verify_api_key: `if not api_key or api_key != API_KEY: raise 401`.
VerifyApiKey(key) == ~(key = NoHeader \/ key = "") /\ key = API_KEY

\* Caller-supplied oauth_url values.
OAuthURLs == {ConsentURL, CbPlain, CbLogin}

\* Where page.goto(url) may end after redirects: on the URL itself, or on
\* the login page when the site sees no session.
Redirects(url) == {url, LoginURL}

\* Where the login page may be after goto("https://claude.ai/login") and
\* the submission of the email: still there, or on a bot challenge (which
\* only the visual variant looks for).
LoginLandings(v) == IF v = "visual" THEN {LoginURL, ChallengeURL} ELSE {LoginURL}

\* Where the page may be once the verification code is typed in: in the
\* authenticated area, or still where it was.
AfterCode(url) == {ChatURL, NewURL, url}

\* Where the page may be after the authorize button was clicked.
AfterClick(url) == {CbPlain, CbErr, CbEmpty, CbLogin, url}

\* Exceptions a browser call may raise, by their str().
TimeoutError == "Timeout exceeded"
TargetClosed == "Target page, context or browser has been closed"
NoContext == "'NoneType' object has no attribute"
\* Raised by the framework, outside the handler, when the handler returns
\* None for a response_model.
ResponseValidation == "ResponseValidationError"
\* The HTTPException authorize_oauth raises itself.
NotLoggedIn == "Not logged in. Please use /login endpoint first."
InvalidKey == "Invalid API key"

\* ---------------------------------------------------------------- state
VARIABLES
    variant,    \* "main" (src/main.py) or "visual" (src/main_visual.py)
    ctx,        \* browser_context is not None
    pages,      \* browser_context.pages: the open pages, oldest first
    purl,       \* page.url of each page
    pc,         \* where each running handler stands ("idle": slot free)
    req,        \* the request each running handler serves
    page,       \* the handler's local `page` (0: not bound / None)
    hadPages,   \* authorize_oauth's local `pages` was non-empty
    out,        \* the response sent by the last step, if it sent one
    loginOK,    \* some POST /login has returned status success
    solo,       \* history: calls ran one at a time so far (on), and the
                \* open pages when the last of them was dispatched (before)
    sel         \* the loop over a list of selectors, when it is followed
                \* one selector at a time (LoopSpec, ScanSpec)

vars == <<variant, ctx, pages, purl, pc, req, page, hadPages, out, loginOK, solo, sel>>

NoReq == [kind |-> "none", key |-> NoHeader, code |-> FALSE]

\* No response was sent by the last step.
NoOut == [call |-> 0]

\* No loop is being followed.
NoSel == [i |-> 0]

Init ==
    /\ variant \in {"main", "visual"}
    /\ ctx \in BOOLEAN
    /\ pages = <<>>
    /\ purl = [p \in PageIds |-> BlankURL]
    /\ pc = [c \in Calls |-> "idle"]
    /\ req = [c \in Calls |-> NoReq]
    /\ page = [c \in Calls |-> 0]
    /\ hadPages = [c \in Calls |-> FALSE]
    /\ out = NoOut
    /\ loginOK = FALSE
    /\ solo = [on |-> TRUE, before |-> <<>>]
    /\ sel = NoSel

\* ------------------------------------------------------------- browser
InSeq(ps, p) == \E i \in 1..Len(ps) : ps[i] = p

IsOpen(p) == InSeq(pages, p)

\* The slot is free: no handler is running in it.
Free(c) == pc[c] = "idle"

\* Page p is the local `page` of a running handler.
Held(p) == \E d \in Calls : ~Free(d) /\ page[d] = p

\* page.close(): the page leaves browser_context.pages; closing a closed
\* page does nothing.
Without(ps, p) == SelectSeq(ps, LAMBDA q : q # p)

\* Identities of page objects nobody refers to any more.
Unused == {p \in PageIds : ~IsOpen(p) /\ ~Held(p)}

\* browser_context.new_page() can succeed.
CanOpen == ctx /\ Unused # {}

\* The page object new_page() returns.
FreshPage == CHOOSE p \in Unused : \A q \in Unused : p <= q

\* str() of what new_page() raises when it cannot succeed.
OpenError == IF ~ctx THEN NoContext ELSE TimeoutError

\* str() of what an awaited call on page p raises when it fails.
PageError(p) == IF IsOpen(p) THEN TimeoutError ELSE TargetClosed

\* ----------------------------------------------------------- responses
HttpError(status, detail) == [http |-> status, detail |-> detail]

LoginResponse(status, message, active) ==
    [http |-> 200, status |-> status, message |-> message,
     session_active |-> active]

OAuthResponse(success, code, error) ==
    [http |-> 200, success |-> success, code |-> code, error |-> error]

\* ------------------------------------------------------ handler plumbing
\* A request may enter slot c: the lowest free one (slots are
\* interchangeable).
Accept(c) == Free(c) /\ \A d \in Calls : d < c => ~Free(d)

\* The history of calls: a request dispatched to slot c while another
\* handler runs ends the one-at-a-time history; otherwise the pages open at
\* its dispatch are noted.  Steps of a running handler leave it alone.
Track(c) ==
    solo' = IF ~Free(c) THEN solo
            ELSE IF solo.on /\ \A d \in Calls \ {c} : Free(d)
                 THEN [on |-> TRUE, before |-> pages]
                 ELSE [on |-> FALSE, before |-> <<>>]

\* The handler of c, serving r, goes on to step `to` with locals p and had,
\* sending nothing.
Continue(c, r, to, p, had) ==
    /\ pc' = [pc EXCEPT ![c] = to]
    /\ req' = [req EXCEPT ![c] = r]
    /\ page' = [page EXCEPT ![c] = p]
    /\ hadPages' = [hadPages EXCEPT ![c] = had]
    /\ out' = NoOut
    /\ Track(c)
    /\ UNCHANGED <<variant, ctx, loginOK, sel>>

\* The handler of c, serving r, answers a, having raised e (Null: nothing
\* raised inside the handler); the open pages are then pgs.  The response
\* is recorded with the handler's locals and the URL its page showed.  The
\* URL of a closed page no running handler refers to can no longer be read
\* and is forgotten.
AnswerAt(c, r, a, e, pgs, urls) ==
    /\ pc' = [pc EXCEPT ![c] = "idle"]
    /\ req' = [req EXCEPT ![c] = NoReq]
    /\ page' = [page EXCEPT ![c] = 0]
    /\ hadPages' = [hadPages EXCEPT ![c] = FALSE]
    /\ out' = [call |-> c, req |-> r, resp |-> a, raised |-> e,
               page |-> page[c], had |-> hadPages[c],
               url |-> IF page[c] # 0 THEN urls[page[c]] ELSE None]
    /\ pages' = pgs
    /\ purl' = [p \in PageIds |->
                  IF InSeq(pgs, p) \/ (\E d \in Calls \ {c} : ~Free(d) /\ page[d] = p)
                  THEN urls[p] ELSE BlankURL]
    /\ Track(c)
    /\ UNCHANGED <<variant, ctx, sel>>

\* The same, the pages showing what they showed before the step.
Answer(c, r, a, e, pgs) == AnswerAt(c, r, a, e, pgs, purl)

Endpoints == IF variant = "visual" THEN {"login", "oauth", "status", "manual"}
             ELSE {"login", "oauth", "status"}

\* The requests to an endpoint: the header, and for /login whether the body
\* carries a verification code (`not request.verification_code` is all the
\* handler asks of it).  The oauth_url of an /oauth/authorize request is
\* drawn where the handler reads it, in AuthGoto.
Requests(kind) ==
    [kind : {kind}, key : Keys,
     code : IF kind = "login" THEN BOOLEAN ELSE {FALSE}]

Admitted(kind) == {r \in Requests(kind) : VerifyApiKey(r.key)}

\* Depends(verify_api_key) fails: 401, and the handler is not called.
RejectKey(c) ==
    \E kind \in Endpoints : \E r \in Requests(kind) :
        /\ ~VerifyApiKey(r.key)
        /\ Accept(c)
        /\ Answer(c, r, HttpError(401, InvalidKey), Null, pages)
        /\ UNCHANGED loginOK

\* -------------------------------------------------------------- /login
\* Mutant of LoginExcept: the page is left open.
LoginExcept_NoClose(c, e) ==
    /\ Answer(c, req[c], HttpError(500, e), e, pages)
    /\ UNCHANGED loginOK

\* login's `except Exception as e`: close the page if one was opened
\* ('page' in locals()), then HTTP 500 with str(e).
LoginExcept(c, e) ==
    /\ Answer(c, req[c], HttpError(500, e), e,
              IF page[c] # 0 THEN Without(pages, page[c]) ELSE pages)
    /\ UNCHANGED loginOK

\* The request passes the key check and the handler runs up to
\* `page = await browser_context.new_page()`.  In the visual variant the
\* branch for a request with a code only logs and falls off the end of the
\* handler: the handler returns None, which the framework cannot serialise
\* as a LoginResponse and answers with HTTP 500; the page stays open.
DispatchLogin(c) ==
    \E r \in Admitted("login"), ok \in BOOLEAN :
        /\ Accept(c)
        /\ IF ok /\ CanOpen
           THEN IF variant = "visual" /\ r.code
                THEN /\ Answer(c, r, HttpError(500, ResponseValidation), Null,
                               Append(pages, FreshPage))
                     /\ UNCHANGED loginOK
                ELSE /\ Continue(c, r, "L_goto", FreshPage, FALSE)
                     /\ pages' = Append(pages, FreshPage)
                     /\ UNCHANGED purl
           ELSE /\ Answer(c, r, HttpError(500, OpenError), OpenError, pages)
                /\ UNCHANGED loginOK

\* Mutant of AfterSubmit: the handler goes back to the navigation.
AfterSubmit_Retry(c) == "L_goto"

\* Where the handler goes once the email is submitted.
AfterSubmit(c) ==
    IF req[c].code THEN "L_code"
    ELSE IF variant = "visual" THEN "L_chal" ELSE "L_wait"

\* A navigation by c puts url u on its page.
Navigate(c, u) ==
    /\ purl' = [purl EXCEPT ![page[c]] = u]
    /\ UNCHANGED pages

\* goto("https://claude.ai/login"), wait for the page, fill in the email and
\* click "Continue with email".
LoginGoto(c) ==
    /\ pc[c] = "L_goto"
    /\ \E ok \in BOOLEAN :
        IF ok /\ IsOpen(page[c])
        THEN \E u \in LoginLandings(variant) :
             /\ Navigate(c, u)
             /\ Continue(c, req[c], AfterSubmit(c), page[c], FALSE)
        ELSE LoginExcept(c, PageError(page[c]))

\* Mutant of LoginClosed: the response reports the session as active.
LoginClosed_Active(c, status, message) ==
    /\ Answer(c, req[c], LoginResponse(status, message, TRUE), Null,
              Without(pages, page[c]))
    /\ UNCHANGED loginOK

\* A login response that closes the page first.
LoginClosed(c, status, message) ==
    /\ Answer(c, req[c], LoginResponse(status, message, FALSE), Null,
              Without(pages, page[c]))
    /\ UNCHANGED loginOK

\* Visual variant: after sleep(3), `"challenge" in page.url or
\* iframe[title*="challenge"] is visible` answers challenge_detected.
LoginChallenge(c) ==
    /\ pc[c] = "L_chal"
    /\ \E ok \in BOOLEAN, iframe \in BOOLEAN :
        IF Contains(purl[page[c]], P_challenge) \/ (ok /\ IsOpen(page[c]) /\ iframe)
        THEN LoginClosed(c, "challenge_detected", "Cloudflare challenge detected")
        ELSE IF ok /\ IsOpen(page[c])
        THEN /\ Continue(c, req[c], "L_wait", page[c], FALSE)
             /\ UNCHANGED <<pages, purl>>
        ELSE LoginExcept(c, PageError(page[c]))

\* Mutant of PromptStatus: the except branch answers as the failed branch
\* of the second call does.
PromptStatus_Failed(appeared) ==
    IF appeared THEN "verification_required" ELSE "failed"

\* Status answered when the guarded wait for the prompt ends.
PromptStatus(appeared) ==
    IF appeared THEN "verification_required" ELSE "error"

PromptMessage(appeared) ==
    IF appeared THEN "Check your email for verification code"
    ELSE "Failed to reach verification screen"

\* try: wait_for_selector('text=verification code', timeout=10000)
\* except: (anything raised, the timeout included) -> status error.
LoginWait(c) ==
    /\ pc[c] = "L_wait"
    /\ \E appeared \in BOOLEAN :
        LoginClosed(c, PromptStatus(appeared /\ IsOpen(page[c])),
                    PromptMessage(appeared /\ IsOpen(page[c])))

\* Wait for the numeric inputs, fill one digit per box, wait for the load
\* to settle.
LoginCode(c) ==
    /\ pc[c] = "L_code"
    /\ \E ok \in BOOLEAN :
        IF ok /\ IsOpen(page[c])
        THEN \E u \in AfterCode(purl[page[c]]) :
             /\ Navigate(c, u)
             /\ Continue(c, req[c], "L_read", page[c], FALSE)
        ELSE LoginExcept(c, PageError(page[c]))

\* Mutant of Classify: claude.ai/new is not taken for a logged-in URL.
Classify_ChatOnly(url) == IF Contains(url, P_chat) THEN "success" ELSE "failed"

\* The classification of the URL read after the code was entered.
Classify(url) == IF LoggedInURL(url) THEN "success" ELSE "failed"

\* After sleep(3): current_url = page.url; success keeps the page open,
\* failed closes it.
LoginRead(c) ==
    /\ pc[c] = "L_read"
    /\ IF Classify(purl[page[c]]) = "success"
       THEN /\ Answer(c, req[c], LoginResponse("success",
                         "Successfully logged in to Claude", TRUE), Null, pages)
            /\ loginOK' = TRUE
       ELSE LoginClosed(c, "failed", "Login failed - please check credentials")

\* ----------------------------------------------------- /oauth/authorize
\* The authorize-button selectors, in list order.
NumSelectors == 6

\* What the try body of the loop does for one selector: is_visible()
\* returns False ("hidden") or raises ("raises"); or it returns True and
\* click() returns ("visible"), raises before the element was pressed
\* ("stuck"), or raises after it was pressed, while waiting for the
\* navigation the press started ("late").
Looks == {"visible", "hidden", "raises", "stuck", "late"}

\* The loop over authorize_selectors before its first iteration: i the
\* selector tried next, clicked the selector whose click returned (0:
\* `clicked` is False), pressed the selectors whose element was pressed.
StartLoop(look) == [look |-> look, i |-> 1, clicked |-> 0, pressed |-> {}]

\* Mutant of TrySelector: a click that raised after pressing counts as a
\* click.
TrySelector_LateCounts(s) ==
    IF s.look[s.i] \in {"visible", "late"}
    THEN [s EXCEPT !.clicked = s.i, !.pressed = @ \cup {s.i}]
    ELSE [s EXCEPT !.i = @ + 1]

\* One iteration: a click that returns sets clicked and breaks; anything
\* raised is swallowed (except: continue).
TrySelector(s) ==
    LET l == s.look[s.i]
    IN  IF l = "visible"
        THEN [s EXCEPT !.clicked = s.i, !.pressed = @ \cup {s.i}]
        ELSE IF l = "late"
        THEN [s EXCEPT !.i = @ + 1, !.pressed = @ \cup {s.i}]
        ELSE [s EXCEPT !.i = @ + 1]

\* The loop has ended: by break, or the list is exhausted.
LoopDone(s) == s.clicked # 0 \/ s.i > NumSelectors

RECURSIVE RunLoop(_)
RunLoop(s) == IF LoopDone(s) THEN s ELSE RunLoop(TrySelector(s))

\* What the handler goes on with after the loop: which selector's click
\* returned, and whether any element was pressed.
Outcome(s) == [clicked |-> s.clicked, pressed |-> s.pressed # {}]

\* Every outcome of the selector loop, over all the ways the six
\* selectors may look.
ClickOutcomes ==
    {Outcome(RunLoop(StartLoop(look))) : look \in [1..NumSelectors -> Looks]}

\* ------------------------------------------------- the code extraction
NumCodeSelectors == 6
NumPatterns == 3

Digit(i) == <<"0","1","2","3","4","5","6","7","8","9">>[i + 1]

\* The text of the i-th candidate element when it shows a code, and when
\* it shows more than 10 characters of white space.
ElementCode(i) == <<"e","l","e","m","e","n","t","-","c","o","d","e","-">> \o <<Digit(i)>>
ElementText(i) == <<" ">> \o ElementCode(i) \o <<" ">>
BlankText == <<" "," "," "," "," "," "," "," "," "," "," "," ">>
ShortText == <<"o","k">>

\* group(1) of the k-th pattern when it matches the HTML: at least 20
\* characters of [A-Za-z0-9_-].
RegexCode(k) ==
    <<"r","e","g","e","x","-","c","o","d","e","-","0","1","2","3","4","5","6","7","-">>
        \o <<Digit(k)>>

\* Mutant of Strip: the text is returned as it was read.
Strip_None(t) == t

\* str.strip()
RECURSIVE LStrip(_)
LStrip(t) == IF t # <<>> /\ Head(t) = " " THEN LStrip(Tail(t)) ELSE t

RECURSIVE RStrip(_)
RStrip(t) ==
    IF t # <<>> /\ t[Len(t)] = " " THEN RStrip(SubSeq(t, 1, Len(t) - 1)) ELSE t

Strip(t) == RStrip(LStrip(t))

\* What the try body does for one candidate element: is_visible() returns
\* False ("hidden") or raises ("raises"), or the element is visible and
\* its text is short, white space, or a code.
ElemLooks == {"hidden", "raises", "short", "blank", "text"}

TextOf(i, l) == IF l = "text" THEN ElementText(i)
                ELSE IF l = "blank" THEN BlankText ELSE ShortText

\* page.content(): it raises, or the HTML is matched by some of the
\* patterns.
PageContents ==
    {[raises |-> TRUE, match |-> [k \in 1..NumPatterns |-> FALSE]]}
        \cup {[raises |-> FALSE, match |-> m] : m \in [1..NumPatterns -> BOOLEAN]}

\* The extraction before its first step, on a page whose candidate
\* elements look elems and whose content is content.
StartScan(elems, content) ==
    [elems |-> elems, content |-> content, stage |-> "url", i |-> 1, code |-> None]

\* One step of the extraction on a page showing url: the URL test, one
\* iteration over code_selectors, page.content(), one iteration over
\* code_patterns.
TryScan(s, url) ==
    IF s.stage = "url"
    THEN IF HasCode(url)
         THEN [s EXCEPT !.stage = "found", !.code = ExtractCode(url)]
         ELSE [s EXCEPT !.stage = "elements"]
    ELSE IF s.stage = "elements"
    THEN IF s.i > NumCodeSelectors
         THEN [s EXCEPT !.stage = "content", !.i = 1]
         ELSE IF /\ s.elems[s.i] \in {"short", "blank", "text"}
                 /\ Len(TextOf(s.i, s.elems[s.i])) > 10
         THEN [s EXCEPT !.stage = "found",
                        !.code = Strip(TextOf(s.i, s.elems[s.i]))]
         ELSE [s EXCEPT !.i = @ + 1]
    ELSE IF s.stage = "content"
    THEN IF s.content.raises
         THEN [s EXCEPT !.stage = "failed"]
         ELSE [s EXCEPT !.stage = "patterns"]
    ELSE IF s.i > NumPatterns
         THEN [s EXCEPT !.stage = "failed"]
         ELSE IF s.content.match[s.i]
         THEN [s EXCEPT !.stage = "found", !.code = RegexCode(s.i)]
         ELSE [s EXCEPT !.i = @ + 1]

ScanDone(s) == s.stage \in {"found", "failed"}

RECURSIVE RunScan(_, _)
RunScan(s, url) == IF ScanDone(s) THEN s ELSE RunScan(TryScan(s, url), url)

\* What the handler answers with.
Result(s) == [found |-> s.stage = "found", code |-> s.code]

\* Every result of the extraction from the content, over all the ways the
\* elements and the HTML may be.
ContentOutcomes ==
    {Result(RunScan([StartScan(e, ct) EXCEPT !.stage = "elements"], <<>>)) :
        e \in [1..NumCodeSelectors -> ElemLooks], ct \in PageContents}

NoCode == "Could not extract authorization code from response"

\* Mutant of CloseOwn: the page is never closed.
CloseOwn_Keep(c) == pages

\* `await page.close() if not pages else None`
CloseOwn(c) == IF ~hadPages[c] /\ page[c] # 0 THEN Without(pages, page[c]) ELSE pages

\* authorize_oauth's `except Exception as e`.  main.py closes the page if
\* this call opened it; the visual variant closes nothing.
AuthExcept(c, e) ==
    /\ Answer(c, req[c], OAuthResponse(FALSE, None, e), e,
              IF variant = "main" THEN CloseOwn(c) ELSE pages)
    /\ UNCHANGED loginOK

\* Mutant of PickPage: the last page, pages[-1].
PickPage_Last(ps) == ps[Len(ps)]

\* The page authorize_oauth works on when pages are open: pages[0].
PickPage(ps) == Head(ps)

\* The request passes the key check; `pages = browser_context.pages`, and
\* with a page open the handler binds the first one.
DispatchOAuth(c) ==
    \E r \in Admitted("oauth") :
        /\ Accept(c)
        /\ IF ~ctx
           THEN /\ Answer(c, r, OAuthResponse(FALSE, None, NoContext), NoContext, pages)
                /\ UNCHANGED loginOK
           ELSE /\ IF pages # <<>>
                   THEN Continue(c, r, "A_goto", PickPage(pages), TRUE)
                   ELSE Continue(c, r, "A_new", 0, FALSE)
                /\ UNCHANGED <<pages, purl>>

\* page = await browser_context.new_page(), no page having been open.
AuthNew(c) ==
    /\ pc[c] = "A_new"
    /\ \E ok \in BOOLEAN :
        IF ok /\ CanOpen
        THEN /\ Continue(c, req[c], "A_goto", FreshPage, FALSE)
             /\ pages' = Append(pages, FreshPage)
             /\ UNCHANGED purl
        ELSE AuthExcept(c, OpenError)

\* await page.goto(request.oauth_url).  The visual variant then sleeps and
\* falls off the end of the handler: None, which the framework answers
\* with HTTP 500.
AuthGoto(c) ==
    /\ pc[c] = "A_goto"
    /\ \E ok \in BOOLEAN :
        IF ok /\ IsOpen(page[c])
        THEN \E url \in OAuthURLs : \E u \in Redirects(url) :
             IF variant = "main"
             THEN /\ Navigate(c, u)
                  /\ Continue(c, req[c], "A_check", page[c], hadPages[c])
             ELSE /\ Answer(c, req[c], HttpError(500, ResponseValidation), Null, pages)
                  /\ UNCHANGED loginOK
        ELSE AuthExcept(c, PageError(page[c]))

\* After the selector loop with outcome o: on to the extraction when a
\* click returned; otherwise the body text is read for the log and the
\* call answers that no button was found.  A pressed element may have
\* navigated the page.
AfterLoop(c, o) ==
    \E text \in {"text", "raises"} :
        IF IsOpen(page[c]) /\ o.clicked # 0
        THEN \E u \in AfterClick(purl[page[c]]) :
             /\ Navigate(c, u)
             /\ Continue(c, req[c], "A_read", page[c], hadPages[c])
        ELSE IF IsOpen(page[c]) /\ text = "text"
        THEN \E u \in IF o.pressed THEN AfterClick(purl[page[c]]) ELSE {purl[page[c]]} :
             /\ AnswerAt(c, req[c], OAuthResponse(FALSE, None,
                                  "Could not find authorize button on page"),
                         Null, CloseOwn(c), [purl EXCEPT ![page[c]] = u])
             /\ UNCHANGED loginOK
        ELSE AuthExcept(c, PageError(page[c]))

\* After the load settled: the login-redirect check, then the selector
\* loop and what follows it.
AuthCheck(c) ==
    /\ pc[c] = "A_check"
    /\ IF LoginRedirect(purl[page[c]])
       THEN /\ Answer(c, req[c], HttpError(401, NotLoggedIn), NotLoggedIn, CloseOwn(c))
            /\ UNCHANGED loginOK
       ELSE \E o \in ClickOutcomes : AfterLoop(c, o)

\* The handler's answer to extraction result r: the code, the page kept;
\* or the failure, the page closed if the call opened it.
AfterScan(c, r) ==
    /\ UNCHANGED loginOK
    /\ IF r.found
       THEN Answer(c, req[c], OAuthResponse(TRUE, r.code, Null), Null, pages)
       ELSE Answer(c, req[c], OAuthResponse(FALSE, None, NoCode), Null, CloseOwn(c))

\* After the click: wait for the load, sleep(2), read page.url and extract
\* the code from the URL, else from the page's content.  On a closed page
\* every content call raises.
AuthRead(c) ==
    /\ pc[c] = "A_read"
    /\ \E ok \in BOOLEAN :
        IF ~ok THEN AuthExcept(c, PageError(page[c]))
        ELSE IF HasCode(purl[page[c]])
        THEN AfterScan(c, [found |-> TRUE, code |-> ExtractCode(purl[page[c]])])
        ELSE \E r \in ContentOutcomes :
                /\ IsOpen(page[c]) \/ ~r.found
                /\ AfterScan(c, r)

\* -------------------------------------------------------- /login/manual
\* Visual variant only.  page = await browser_context.new_page(); the
\* except branch closes nothing.
DispatchManual(c) ==
    /\ variant = "visual"
    /\ \E r \in Admitted("manual"), ok \in BOOLEAN :
        /\ Accept(c)
        /\ IF ok /\ CanOpen
           THEN /\ Continue(c, r, "M_goto", FreshPage, FALSE)
                /\ pages' = Append(pages, FreshPage)
                /\ UNCHANGED purl
           ELSE /\ Answer(c, r, HttpError(500, OpenError), OpenError, pages)
                /\ UNCHANGED loginOK

\* sleep, then goto("https://claude.ai/login"); the page stays open.
ManualGoto(c) ==
    /\ pc[c] = "M_goto"
    /\ UNCHANGED loginOK
    /\ \E ok \in BOOLEAN :
        IF ok /\ IsOpen(page[c])
        THEN Answer(c, req[c], [http |-> 200, status |-> "opened"], Null, pages)
        ELSE Answer(c, req[c], HttpError(500, PageError(page[c])),
                    PageError(page[c]), pages)

\* -------------------------------------------------------------- /status
\* Mutant of StatusBody: browser_context is used without the `if
\* browser_context else []` guard and outside the try.
StatusBody_NoGuard ==
    IF ~ctx THEN HttpError(500, NoContext)
    ELSE [http |-> 200,
          browser_active |-> TRUE,
          pages_open |-> Len(pages),
          current_url |-> IF pages # <<>> THEN purl[pages[1]] ELSE None,
          logged_in |-> IF pages # <<>> THEN LoggedInURL(purl[pages[1]]) ELSE FALSE]

\* get_status: no await, the handler runs in one piece.
StatusBody ==
    LET ps == IF ctx THEN pages ELSE <<>>
    IN  [http |-> 200,
         browser_active |-> ctx,
         pages_open |-> Len(ps),
         current_url |-> IF ps # <<>> THEN purl[ps[1]] ELSE None,
         logged_in |-> IF ps # <<>> THEN LoggedInURL(purl[ps[1]]) ELSE FALSE]

Status(c) ==
    \E r \in Admitted("status") :
        /\ Accept(c)
        /\ Answer(c, r, StatusBody, Null, pages)
        /\ UNCHANGED loginOK

Next ==
    \E c \in Calls :
        \/ RejectKey(c)
        \/ DispatchLogin(c)
        \/ LoginGoto(c)
        \/ LoginChallenge(c)
        \/ LoginWait(c)
        \/ LoginCode(c)
        \/ LoginRead(c)
        \/ DispatchOAuth(c)
        \/ AuthNew(c)
        \/ AuthGoto(c)
        \/ AuthCheck(c)
        \/ AuthRead(c)
        \/ DispatchManual(c)
        \/ ManualGoto(c)
        \/ Status(c)

\* The steps of the handler running in slot c, from its first await to its
\* answer.
Run(c) ==
    \/ LoginGoto(c)
    \/ LoginChallenge(c)
    \/ LoginWait(c)
    \/ LoginCode(c)
    \/ LoginRead(c)
    \/ AuthNew(c)
    \/ AuthGoto(c)
    \/ AuthCheck(c)
    \/ AuthRead(c)
    \/ ManualGoto(c)

Spec == Init /\ [][Next]_vars

\* --------------------------------------------- the selector loop, stepped
\* One /oauth/authorize of main.py that opened its page, navigated to the
\* consent page and stands before the selector loop; the page's six
\* selectors look any way they can.
LoopInit ==
    /\ variant = "main"
    /\ ctx = TRUE
    /\ pages = <<1>>
    /\ purl = [p \in PageIds |-> IF p = 1 THEN ConsentURL ELSE BlankURL]
    /\ pc = [c \in Calls |-> IF c = 1 THEN "A_check" ELSE "idle"]
    /\ req = [c \in Calls |->
                IF c = 1 THEN [kind |-> "oauth", key |-> API_KEY, code |-> FALSE]
                ELSE NoReq]
    /\ page = [c \in Calls |-> IF c = 1 THEN 1 ELSE 0]
    /\ hadPages = [c \in Calls |-> FALSE]
    /\ out = NoOut
    /\ loginOK = FALSE
    /\ solo = [on |-> TRUE, before |-> <<>>]
    /\ \E look \in [1..NumSelectors -> Looks] : sel = StartLoop(look)

\* One iteration of `for selector in authorize_selectors`.
LoopStep ==
    /\ pc[1] = "A_check"
    /\ ~LoopDone(sel)
    /\ sel' = TrySelector(sel)
    /\ UNCHANGED <<variant, ctx, pages, purl, pc, req, page, hadPages, out, loginOK, solo>>

\* The loop has ended: the handler goes on with its outcome.
LoopEnd ==
    /\ pc[1] = "A_check"
    /\ LoopDone(sel)
    /\ AfterLoop(1, Outcome(sel))

LoopNext == LoopStep \/ LoopEnd

LoopSpec == LoopInit /\ [][LoopNext]_vars

\* ------------------------------------------------ the extraction, stepped
\* The same call after a click returned and the load settled, on a page
\* showing the consent page or a callback URL; the candidate elements and
\* the HTML are any way they can be.
ScanInit ==
    /\ variant = "main"
    /\ ctx = TRUE
    /\ pages = <<1>>
    /\ \E u \in {ConsentURL, CbPlain} :
          purl = [p \in PageIds |-> IF p = 1 THEN u ELSE BlankURL]
    /\ pc = [c \in Calls |-> IF c = 1 THEN "A_read" ELSE "idle"]
    /\ req = [c \in Calls |->
                IF c = 1 THEN [kind |-> "oauth", key |-> API_KEY, code |-> FALSE]
                ELSE NoReq]
    /\ page = [c \in Calls |-> IF c = 1 THEN 1 ELSE 0]
    /\ hadPages = [c \in Calls |-> FALSE]
    /\ out = NoOut
    /\ loginOK = FALSE
    /\ solo = [on |-> TRUE, before |-> <<>>]
    /\ \E e \in [1..NumCodeSelectors -> ElemLooks], ct \in PageContents :
          sel = StartScan(e, ct)

\* One step of the extraction.
ScanStep ==
    /\ pc[1] = "A_read"
    /\ ~ScanDone(sel)
    /\ sel' = TryScan(sel, purl[page[1]])
    /\ UNCHANGED <<variant, ctx, pages, purl, pc, req, page, hadPages, out, loginOK, solo>>

\* The extraction has ended: the handler answers.
ScanEnd ==
    /\ pc[1] = "A_read"
    /\ ScanDone(sel)
    /\ AfterScan(1, Result(sel))

ScanNext == ScanStep \/ ScanEnd

ScanSpec == ScanInit /\ [][ScanNext]_vars

\* =============================================================== claims
\* A response was sent by the last step, to a request to endpoint `kind`.
Sent(kind) == out.call # 0 /\ out.req.kind = kind

\* The handler ran and answered: the request passed the key check.
Handled(kind) == Sent(kind) /\ out.req.key = API_KEY

\* The answer is a response body, not an HTTP error.
IsBody == out.resp.http = 200

\* The header is missing, empty or different from the configured key.
InvalidKey_(key) == key = NoHeader \/ key = "" \/ key # API_KEY

\* ------------------------------------------------------------------ C1
\* C1: on every protected endpoint a request whose X-API-Key is missing,
\* empty or different from the configured key is answered 401 and the
\* handler body never runs: the step that answers it leaves the open pages,
\* their URLs and every running handler as they were, and no handler ever
\* runs on behalf of such a request.
C1_Unauthenticated401 ==
    /\ [](\A c \in Calls : ~Free(c) => ~InvalidKey_(req[c].key))
    /\ [][(out'.call # 0 /\ InvalidKey_(out'.req.key)) =>
            /\ out'.resp = HttpError(401, InvalidKey)
            /\ pages' = pages /\ purl' = purl
            /\ pc' = pc /\ page' = page]_vars

\* A request to /login/manual without a valid key was answered while a
\* page was open.
C1_Witness ==
    /\ Sent("manual") /\ InvalidKey_(out.req.key)
    /\ out.resp.http = 401
    /\ pages # <<>>

\* ------------------------------------------------------------------ C2
\* C2 as stated: a POST /login without a code that is answered with a
\* body has status verification_required or challenge_detected.
C2_AsStated ==
    (Handled("login") /\ ~out.req.code /\ IsBody) =>
        out.resp.status \in {"verification_required", "challenge_detected"}

\* C2 (amended): a POST /login without a code that is answered with a body
\* has status verification_required, challenge_detected or error (the
\* prompt did not appear within the timeout), and never success.
C2_NoCodeNeverSuccess ==
    (Handled("login") /\ ~out.req.code /\ IsBody) =>
        out.resp.status \in {"verification_required", "challenge_detected", "error"}

\* The prompt never appeared: status error.
C2_Witness ==
    /\ Handled("login") /\ ~out.req.code /\ IsBody
    /\ out.resp.status = "error"
    /\ variant = "main"

\* ------------------------------------------------------------------ C3
\* C3: a POST /login with a code that is answered with a body returns
\* success with session_active=true exactly when the URL read after
\* settlement contains claude.ai/chat or claude.ai/new, and failed with
\* session_active=false otherwise; after success the page it opened is
\* open, after failed it is closed.
C3_CodeLoginClassified ==
    (Handled("login") /\ out.req.code /\ IsBody) =>
        IF Contains(out.url, P_chat) \/ Contains(out.url, P_new)
        THEN /\ out.resp.status = "success" /\ out.resp.session_active
             /\ IsOpen(out.page)
        ELSE /\ out.resp.status = "failed" /\ ~out.resp.session_active
             /\ ~IsOpen(out.page)

\* A login with a code succeeded on claude.ai/new and its page is open.
C3_Witness ==
    /\ Handled("login") /\ out.req.code /\ IsBody
    /\ out.resp.status = "success"
    /\ out.url = NewURL
    /\ IsOpen(out.page)

\* ------------------------------------------------------------------ C4
\* C4 as stated: while no POST /login has returned success, every
\* POST /oauth/authorize of the headless service is answered 401 or with a
\* body success=false, never with a code.
C4_NoCodeBeforeLogin ==
    (Handled("oauth") /\ variant = "main" /\ ~loginOK) =>
        \/ out.resp.http = 401
        \/ (IsBody /\ ~out.resp.success /\ out.resp.code = None)

\* ------------------------------------------------------------------ C5
\* The value the claim speaks of: the query parameter named `code` of the
\* URL, percent-decoded.
RECURSIVE SplitAll(_, _)
SplitAll(s, sep) ==
    LET i == Find(s, sep, 1)
    IN  IF i = 0 THEN <<s>>
        ELSE <<SubSeq(s, 1, i - 1)>> \o SplitAll(SubSeq(s, i + Len(sep), Len(s)), sep)

QueryOf(url) ==
    LET i == Find(url, <<"?">>, 1)
    IN  IF i = 0 THEN <<>> ELSE SubSeq(url, i + 1, Len(url))

CodeParams(url) ==
    SelectSeq(SplitAll(QueryOf(url), P_amp),
              LAMBDA kv : Len(kv) >= Len(P_code) /\ SubSeq(kv, 1, Len(P_code)) = P_code)

HasCodeParam(url) == CodeParams(url) # <<>>

HexChar(h) ==
    IF h = <<"2", "F">> THEN "/"
    ELSE IF h = <<"2", "6">> THEN "&"
    ELSE IF h = <<"3", "D">> THEN "="
    ELSE IF h = <<"2", "0">> THEN " "
    ELSE "?"

RECURSIVE PercentDecode(_)
PercentDecode(s) ==
    IF s = <<>> THEN <<>>
    ELSE IF s[1] = "%" /\ Len(s) >= 3
    THEN <<HexChar(SubSeq(s, 2, 3))>> \o PercentDecode(SubSeq(s, 4, Len(s)))
    ELSE <<s[1]>> \o PercentDecode(Tail(s))

CodeParam(url) ==
    PercentDecode(SubSeq(Head(CodeParams(url)), Len(P_code) + 1,
                         Len(Head(CodeParams(url)))))

\* C5 as stated: every POST /oauth/authorize of the headless service whose
\* final URL carries code=<value>, and in which no browser call failed, is
\* answered success=true with code equal to <value>, percent-decoded and
\* cut at the next '&'.
C5_CodeFromFinalURL ==
    (/\ Handled("oauth") /\ variant = "main"
     /\ out.raised \in {Null, NotLoggedIn}
     /\ out.url # None /\ HasCodeParam(out.url)) =>
        /\ IsBody
        /\ out.resp.success
        /\ out.resp.code = CodeParam(out.url)

\* ------------------------------------------------------------------ C6
\* C6: a GET /status that passes the key check while no page is open
\* answers pages_open=0, current_url=null and logged_in=false, with
\* browser_active telling whether the context exists; and a GET /status
\* that passes the key check is never answered with an HTTP error.
C6_StatusNoPage ==
    Handled("status") =>
        /\ IsBody
        /\ (pages = <<>>) =>
              /\ out.resp.pages_open = 0
              /\ out.resp.current_url = None
              /\ out.resp.logged_in = FALSE
              /\ out.resp.browser_active = ctx

\* /status answered with no page open and no browser context.
C6_Witness ==
    /\ Handled("status") /\ pages = <<>> /\ ~ctx
    /\ out.resp.pages_open = 0 /\ ~out.resp.browser_active

LoginStatuses ==
    {"verification_required", "success", "failed", "error", "challenge_detected"}

C8_LoginBodyShape ==
    (Handled("login") /\ IsBody) =>
        /\ DOMAIN out.resp = {"http", "status", "message", "session_active"}
        /\ out.resp.status \in LoginStatuses
        /\ out.resp.session_active \in BOOLEAN
        /\ out.resp.session_active => out.resp.status = "success"

\* The visual variant answered challenge_detected.
C8_Witness ==
    /\ Handled("login") /\ IsBody /\ variant = "visual"
    /\ out.resp.status = "challenge_detected"
    /\ ~out.resp.session_active

\* ------------------------------------------------------------------ C9
LoginAwaits == {"L_goto", "L_chal", "L_wait", "L_code", "L_read"}
OAuthAwaits == {"A_new", "A_goto", "A_check", "A_read"}

\* C9: nothing keeps a call away from a page another call is using: an
\* /oauth/authorize dispatched while pages are open takes the first page
\* of the context, whichever running handlers hold it, and no running
\* handler is stopped or moved by that.
C9_NoMutualExclusion ==
    [][\A c \in Calls :
         (Free(c) /\ pc'[c] = "A_goto") =>
             /\ pages # <<>>
             /\ page'[c] = Head(pages)
             /\ \A d \in Calls \ {c} : pc'[d] = pc[d] /\ page'[d] = page[d]]_vars

\* The interleaving of the claim: a /login with a code and an
\* /oauth/authorize share a page; the login reads a URL that only the
\* authorization's navigation puts on a page, answers "failed" because of
\* it, and closes the page the authorization is still working on.
C9_Witness ==
    /\ Handled("login") /\ out.req.code /\ IsBody
    /\ out.resp.status = "failed"
    /\ out.url \in {ConsentURL, CbPlain}
    /\ \E d \in Calls : pc[d] \in OAuthAwaits /\ page[d] = out.page

\* ----------------------------------------------------------------- C10
\* The event loop resumes the handler in slot c: its position changes.  In
\* Next these are the steps of Run(c), and one is possible in every state
\* in which the handler runs (the last two conjuncts of C10).
Resumed(c) ==
    /\ ~Free(c)
    /\ \E l \in {"idle", "M_goto"} \cup LoginAwaits \cup OAuthAwaits :
          l # pc[c] /\ pc' = [pc EXCEPT ![c] = l]

\* The event loop runs every handler whose await has ended, and every
\* await ends: by its condition, its timeout, its sleep, or an exception.
LiveSpec == Init /\ [][Next]_vars /\ \A c \in Calls : WF_pc(Resumed(c))

\* How far a handler is: each await of a handler comes after the ones
\* before it in the code.
Rank(l) ==
    CASE l = "idle" -> 0
      [] l \in {"L_goto", "A_new", "M_goto"} -> 1
      [] l \in {"L_chal", "A_goto"} -> 2
      [] l \in {"L_wait", "A_check"} -> 3
      [] l \in {"L_code", "A_read"} -> 4
      [] l = "L_read" -> 5

\* C10: every dispatched call is eventually answered, whatever the other
\* calls do; no step of a handler is taken twice (a running handler only
\* moves forward in its code or answers, and the only steps that move no
\* handler are requests answered at once); and a running handler can
\* always take its next step, whatever state the other handlers and the
\* pages are in.
C10_EveryCallAnswered ==
    /\ \A c \in Calls : (~Free(c)) ~> Free(c)
    /\ [][\A c \in Calls :
            (~Free(c) /\ pc'[c] # pc[c]) =>
                pc'[c] = "idle" \/ Rank(pc'[c]) > Rank(pc[c])]_vars
    /\ [][pc' = pc => (out'.call # 0 /\ Free(out'.call))]_vars
    /\ [](\A c \in Calls : ~Free(c) => ENABLED Run(c))

\* A handler whose page was closed by another call has answered.
C10_Witness ==
    /\ out.call # 0 /\ out.raised = TargetClosed
    /\ out.page # 0 /\ ~IsOpen(out.page)

\* ----------------------------------------------------------------- C11
\* C11 as stated: /status reports logged_in exactly when the first open
\* page shows claude.ai/chat or claude.ai/new, and, the calls having run
\* one at a time, a GET /status answered right after a POST /login that
\* returned success reports logged_in=true.
C11_StatusAfterLogin ==
    /\ [](Handled("status") =>
            out.resp.logged_in =
                (ctx /\ pages # <<>> /\ LoggedInURL(purl[Head(pages)])))
    /\ [][(/\ solo.on
           /\ Handled("login") /\ IsBody /\ out.resp.status = "success"
           /\ out'.call # 0 /\ out'.req.kind = "status"
           /\ out'.req.key = API_KEY) =>
              (out'.resp.http = 200 /\ out'.resp.logged_in)]_vars

VisibleSel(look) == {i \in 1..NumSelectors : look[i] \in {"visible", "stuck", "late"}}

\* Selectors whose is_visible() returned True and whose click() returned.
ReturnedSel(look) == {i \in 1..NumSelectors : look[i] = "visible"}

Earliest(S) == IF S = {} THEN 0 ELSE CHOOSE i \in S : \A j \in S : i <= j

NoButton == "Could not find authorize button on page"

\* The selectors are tried one after the other in list order.
InListOrder ==
    [][(pc[1] = "A_check" /\ sel' # sel) =>
          \/ sel'.i = sel.i + 1 /\ sel'.clicked = 0
          \/ sel'.i = sel.i /\ sel'.clicked = sel.i]_vars

\* C13 as stated: the selectors are tried in list order; at most one
\* element is clicked, the first match of the earliest selector whose
\* first match is visible; and with no visible match the call answers
\* success=false with 'Could not find authorize button on page' and
\* extracts nothing.
C13_AsStated ==
    /\ InListOrder
    /\ [](LoopDone(sel) =>
            /\ Cardinality(sel.pressed) <= 1
            /\ sel.clicked = Earliest(VisibleSel(sel.look))
            /\ sel.pressed = {sel.clicked} \ {0})
    /\ []((pc[1] # "A_check" /\ VisibleSel(sel.look) = {}) =>
            /\ pc[1] = "idle" /\ out.call = 1 /\ IsBody
            /\ ~out.resp.success /\ out.resp.error = NoButton)

\* C13, amended: the selectors are tried in list order; each selector
\* whose first match is visible gets a click attempt until one click
\* returns, a raised check or click being skipped; the click that returns
\* is on the earliest selector that is visible and whose click does not
\* raise, and the elements pressed are that one and those of earlier
\* attempts that raised after pressing.  With no click returned the call
\* extracts nothing and answers success=false: with 'Could not find
\* authorize button on page', or with the exception's string when reading
\* the body text for the log raised.
C13_ClickFirstThatReturns ==
    /\ InListOrder
    /\ [](LoopDone(sel) =>
            /\ sel.clicked = Earliest(ReturnedSel(sel.look))
            /\ sel.pressed =
                  {j \in 1..(IF sel.clicked # 0 THEN sel.clicked ELSE NumSelectors) :
                      sel.look[j] \in {"visible", "late"}})
    /\ [](pc[1] # "A_check" =>
            IF sel.clicked # 0
            THEN pc[1] = "A_read" /\ out.call = 0
            ELSE /\ pc[1] = "idle" /\ out.call = 1 /\ IsBody
                 /\ ~out.resp.success /\ out.resp.code = None
                 /\ IF out.raised = Null THEN out.resp.error = NoButton
                    ELSE out.resp.error = out.raised)

\* The first selector's click raised without pressing, the second's raised
\* after pressing, the third's returned: two elements were pressed and the
\* handler goes on to the extraction.
C13_Witness ==
    /\ pc[1] = "A_read"
    /\ sel.look[1] = "stuck" /\ sel.look[2] = "late" /\ sel.look[3] = "visible"
    /\ sel.clicked = 3 /\ sel.pressed = {2, 3}

\* ----------------------------------------------------------------- C14
\* Candidate elements that yield a code: visible, with a text of more
\* than 10 characters; and patterns that match the HTML.
YieldingElems(s) == {i \in 1..NumCodeSelectors : s.elems[i] \in {"text", "blank"}}
MatchingPatterns(s) ==
    IF s.content.raises THEN {}
    ELSE {k \in 1..NumPatterns : s.content.match[k]}

\* The code the first yielding strategy gives on a page showing url: (a)
\* the URL, (b) the earliest yielding element, stripped, (c) the earliest
\* matching pattern when the page's content could be read.
FirstYield(s, url) ==
    IF Contains(url, P_code)
    THEN [found |-> TRUE, code |-> SplitHead(SplitSecond(url, P_code), P_amp)]
    ELSE IF YieldingElems(s) # {}
    THEN [found |-> TRUE,
          code |-> IF s.elems[Earliest(YieldingElems(s))] = "text"
                   THEN ElementCode(Earliest(YieldingElems(s))) ELSE <<>>]
    ELSE IF MatchingPatterns(s) # {}
    THEN [found |-> TRUE, code |-> RegexCode(Earliest(MatchingPatterns(s)))]
    ELSE [found |-> FALSE, code |-> None]

\* C14: after a click the strategies are consulted strictly in the order
\* URL, candidate elements in list order, patterns in list order, and
\* none after one has yielded; the call answers success=true with the
\* code of the first strategy that yields one, and success=false with
\* 'Could not extract authorization code from response' exactly when no
\* strategy yields or reading the page's content raises.
C14_FirstStrategyWins ==
    /\ [][(pc[1] = "A_read" /\ sel' # sel) =>
            /\ ~ScanDone(sel)
            /\ \/ sel.stage = "url" /\ sel'.stage \in {"found", "elements"} /\ sel'.i = 1
               \/ /\ sel.stage = "elements"
                  /\ \/ sel'.stage = "elements" /\ sel'.i = sel.i + 1
                     \/ sel'.stage = "found" /\ sel'.i = sel.i
                     \/ sel'.stage = "content" /\ sel.i > NumCodeSelectors /\ sel'.i = 1
               \/ sel.stage = "content" /\ sel'.stage \in {"patterns", "failed"} /\ sel'.i = 1
               \/ /\ sel.stage = "patterns"
                  /\ \/ sel'.stage = "patterns" /\ sel'.i = sel.i + 1
                     \/ sel'.stage = "found" /\ sel'.i = sel.i
                     \/ sel'.stage = "failed" /\ sel.i > NumPatterns]_vars
    /\ [](ScanDone(sel) => Result(sel) = FirstYield(sel, purl[1]))
    /\ [](pc[1] # "A_read" =>
            /\ ScanDone(sel) /\ pc[1] = "idle" /\ out.call = 1 /\ IsBody
            /\ IF FirstYield(sel, out.url).found
               THEN /\ out.resp.success
                    /\ out.resp.code = FirstYield(sel, out.url).code
                    /\ out.resp.error = Null
               ELSE /\ ~out.resp.success
                    /\ out.resp.error = NoCode
            /\ (out.resp.error = NoCode) <=>
                  /\ ~Contains(out.url, P_code)
                  /\ YieldingElems(sel) = {}
                  /\ (sel.content.raises \/ MatchingPatterns(sel) = {}))

\* The URL holds no code, the first candidate's check raised, the second's
\* text is short, the third shows a code, and a pattern would match too:
\* the answer is the third element's text, stripped.
C14_Witness ==
    /\ pc[1] = "idle" /\ out.call = 1 /\ out.url = ConsentURL
    /\ sel.elems[1] = "raises" /\ sel.elems[2] = "short" /\ sel.elems[3] = "text"
    /\ ~sel.content.raises /\ sel.content.match[1]
    /\ out.resp.success /\ out.resp.code = ElementCode(3)

\* ----------------------------------------------------------------- C15
\* C15 (main.py, the calls having run one at a time): a /login that does
\* not answer success and an /oauth/authorize that does not answer
\* success=true leave the open pages as they were when the call was
\* dispatched; a /login answering success has added its page, and an
\* /oauth/authorize answering success=true has added its page only when
\* none was open.
Succeeded == IsBody /\ IF out.req.kind = "login" THEN out.resp.status = "success"
                       ELSE out.resp.success

C15_PagesFrame ==
    (/\ variant = "main" /\ solo.on
     /\ (Sent("login") \/ Sent("oauth"))) =>
        IF ~Succeeded THEN pages = solo.before
        ELSE IF out.req.kind = "login" \/ solo.before = <<>>
        THEN /\ pages = Append(solo.before, out.page)
             /\ ~InSeq(solo.before, out.page)
        ELSE pages = solo.before

\* With a page open from an earlier call, a /login with a code failed: its
\* own page is closed and the earlier page is still the only one open.
C15_Witness ==
    /\ variant = "main" /\ solo.on
    /\ Handled("login") /\ IsBody /\ out.resp.status = "failed"
    /\ solo.before # <<>> /\ pages = solo.before
    /\ out.page # 0 /\ ~IsOpen(out.page)

\* ----------------------------------------------------------------- C16
\* C16 as stated (main.py): every body of /oauth/authorize carries exactly
\* one of code and error: success=true with a non-empty code and no
\* error, or success=false with no code and an error.
C16_CodeXorError ==
    (Handled("oauth") /\ variant = "main" /\ IsBody) =>
        IF out.resp.success
        THEN /\ out.resp.code # None /\ out.resp.code # <<>>
             /\ out.resp.error = Null
        ELSE /\ out.resp.code = None
             /\ out.resp.error # Null

====
